---- MODULE Spec2Model ----
(***************************************************************************)
(* The streaming subsystem of MCPDockerShell (src/main.py): the registry   *)
(* self.active_streams, the background producers started by                *)
(* stream_container_logs, stream_command_execution and                     *)
(* start_realtime_monitoring, and the cursor API get_stream_data /         *)
(* stop_stream, with the follow=False read of stream_container_logs and    *)
(* the calls that name an unknown container; and the port relay of         *)
(* start_port_stream /                                                     *)
(* stop_port_stream / list_active_streams, with the listener thread        *)
(* _start_stream_server, one _handle_stream_client thread per accepted     *)
(* connection and its two forward_data threads.                            *)
(*                                                                         *)
(* The tool handlers are coroutines without an await in their body, so     *)
(* they run one at a time on the event loop; the producers are             *)
(* threading.Thread workers that interleave with the running handler and   *)
(* with each other between any two statements.  No lock is taken anywhere. *)
(***************************************************************************)
EXTENDS Integers, Sequences, FiniteSets, TLC

\* ------------------------------------------------------------------ bounds
\* The source trims a buffer that grew past 1000 entries to its last 500
\* (main.py:1672-1675).  The model keeps the two thresholds as definitions and
\* scales them down; every formula is stated in terms of these names.
BufferLimit == 4
KeepCount == 2
\* Events appended under one key in one behaviour: enough for a trim and
\* for one more event after it.
MaxEvents == BufferLimit + 2
\* Starts of one behaviour of SpecExec (Spec follows a single log stream).
MaxThreads == 2
\* Clients that connect to one relay, and the bytes one client sends.
MaxConns == 2
MsgLen == 2

\* ------------------------------------------------------------- the registry
\* One container; time.time() stays within one second, so that every start
\* for the container builds the same key (main.py:1645, 1767, 2789).
Container == "c1"
LogsKey == "logs_c1_0"
ExecKey == "exec_c1_0"
RealtimeKey == "realtime_c1_0"
\* A container id that no container of self.active_containers has, and the
\* key start_realtime_monitoring builds for it.
UnknownContainer == "c0"
RealtimeUnknownKey == "realtime_c0_0"
ContainerIds == {Container, UnknownContainer}
\* A port relay's key is f"{container_id[:12]}:{container_port}"; host_port
\* defaults to container_port (main.py:1560-1564).
ContainerPort == 8080
HostPort == ContainerPort
RelayKey == "c1:8080"
\* A short id: a proper prefix of the container's id, and the relay key a
\* start_port_stream called with it builds.
ContainerPrefix == "c"
RelayAliasKey == "c:8080"
Keys == {LogsKey, ExecKey, RealtimeKey, RelayKey, RealtimeUnknownKey, RelayAliasKey}

VARIABLES
    active_streams, \* self.active_streams: dict key -> record
    threads,        \* the threading.Thread workers started so far
    call,           \* the tool handler running on the event loop, if any
    starts_left,    \* how many more start calls the behaviour makes
    stopped,        \* history: stop_stream popped the key since its last registration
    nappended,      \* history: how many events were ever appended under a key
    regAt,          \* history: nappended[k] when the key was last registered
    sess,           \* history: the poller that chains its cursors from 0, per key;
                    \* atomic: no producer wrote the record during any of its reads
    idem,           \* history: repeated reads at one cursor with the record at rest
    host_port,      \* the listening socket bound to the host port: the thread that
                    \* owns it, 0 when the port is free
    conns,          \* the connections accepted by the relay, with their handler
                    \* and forwarder threads and the bytes on their way
    clients         \* the peers of the relay: how many more clients connect, and
                    \* how many bytes each of them sends

vars == <<active_streams, threads, call, starts_left, stopped, nappended, regAt, sess, idem,
          host_port, conns, clients>>

\* What the log, command and realtime streams leave alone, and what the port
\* relay leaves alone.
relayvars == <<host_port, conns, clients>>
streamhist == <<nappended, regAt, sess, idem>>

\* --------------------------------------------------------- Python semantics
Min(a, b) == IF a < b THEN a ELSE b
Max(a, b) == IF a > b THEN a ELSE b

\* s[i:] of a Python list: a negative i counts from the end, and an index
\* outside the list is clamped.
PySliceFrom(s, i) ==
    LET n == Len(s)
        start == IF i < 0 THEN Max(n + i, 0) ELSE Min(i, n)
    IN  SubSeq(s, start + 1, n)

\* d[k] = v and d.pop(k) of a Python dict
DictSet(d, k, v) == [x \in DOMAIN d \cup {k} |-> IF x = k THEN v ELSE d[x]]
DictPop(d, k) == [x \in DOMAIN d \ {k} |-> d[x]]

Idle == [op |-> "idle"]
NoEvent == [type |-> "none"]
NoAnchor == [set |-> FALSE]
NewSession == [cursor |-> 0, received |-> <<>>, atomic |-> TRUE]

\* History: the place of each event in the append order of its key.  An event
\* is an immutable dict; seq labels the object when it enters a buffer.
Seqs(events) == [i \in DOMAIN events |-> events[i].seq]

\* ------------------------------------------------------ buffer maintenance
\* "Keep buffer size manageable": the length test ...
OverLimitEager(buffer) == Len(buffer) >= BufferLimit
OverLimit(buffer) == Len(buffer) > BufferLimit

\* ... and buffer[-500:]
KeepRecent(buffer) == PySliceFrom(buffer, 0 - KeepCount)

\* A producer wrote the record of key k while get_stream_data runs: the
\* handler's local `buffer` keeps pointing at the list object it read, which
\* append mutates in place and which an assignment to ["buffer"] or to the
\* key replaces.
CallAfterAppend(k, ev) ==
    IF call.op = "get_stream_data" /\ call.pc = "reply" /\ call.key = k /\ call.alias
    THEN [call EXCEPT !.buffer = Append(@, ev)]
    ELSE call

CallAfterRebind(k) ==
    IF call.op = "get_stream_data" /\ call.pc = "reply" /\ call.key = k
    THEN [call EXCEPT !.alias = FALSE]
    ELSE call

\* self.active_streams[k]["buffer"].append(event)
AppendEvent(k, event) ==
    LET ev == [event EXCEPT !.seq = nappended[k] + 1] IN
    /\ active_streams' = [active_streams EXCEPT ![k].buffer = Append(@, ev)]
    /\ nappended' = [nappended EXCEPT ![k] = @ + 1]
    /\ idem' = [idem EXCEPT ![k] = NoAnchor]
    /\ call' = CallAfterAppend(k, ev)

\* self.active_streams[k] = {"buffer": [], "type": type}
RecreateRecord(k, type) ==
    /\ active_streams' = DictSet(active_streams, k, [buffer |-> <<>>, type |-> type])
    /\ idem' = [idem EXCEPT ![k] = NoAnchor]
    /\ call' = CallAfterRebind(k)

\* if len(buffer) > 1000: buffer = buffer[-500:]
TrimBuffer(k) ==
    IF OverLimit(active_streams[k].buffer)
    THEN /\ active_streams' = [active_streams EXCEPT ![k].buffer = KeepRecent(@)]
         /\ idem' = [idem EXCEPT ![k] = NoAnchor]
         /\ call' = CallAfterRebind(k)
    ELSE UNCHANGED <<active_streams, idem, call>>

SetThread(t, rec) == threads' = [threads EXCEPT ![t] = rec]

\* A worker that returned; what it was working on is gone.
Exit(th) == [kind |-> th.kind, key |-> th.key, pc |-> "done"]

\* An exception e takes the worker to its except clause.
Raise(th, e) == [th EXCEPT !.pc = "except", !.ev = NoEvent, !.err = e]

\* self.active_containers, and _find_container: the container of the given
\* id, or None.  No behaviour creates a container.
active_containers == {Container}

\* The characters of the ids the tools are called with.
IdText ==
    (Container :> <<"c", "1">>) @@ (UnknownContainer :> <<"c", "0">>)
        @@ (ContainerPrefix :> <<"c">>)

\* full_id.startswith(container_id)
startswith(full_id, container_id) ==
    /\ Len(IdText[container_id]) <= Len(IdText[full_id])
    /\ SubSeq(IdText[full_id], 1, Len(IdText[container_id])) = IdText[container_id]

\* Exact match first, then the first container whose id starts with the
\* argument.
_find_container(container_id) ==
    IF container_id \in active_containers THEN container_id
    ELSE IF \E full_id \in active_containers : startswith(full_id, container_id)
    THEN CHOOSE full_id \in active_containers : startswith(full_id, container_id)
    ELSE "None"

\* ------------------------------------------------------------------- Init
InitState(starts, nclients, nbytes) ==
    /\ active_streams = <<>>
    /\ threads = <<>>
    /\ call = Idle
    /\ starts_left = starts
    /\ stopped = [k \in Keys |-> FALSE]
    /\ nappended = [k \in Keys |-> 0]
    /\ regAt = [k \in Keys |-> 0]
    /\ sess = [k \in Keys |-> NewSession]
    /\ idem = [k \in Keys |-> NoAnchor]
    /\ host_port = 0
    /\ conns = <<>>
    /\ clients = [left |-> nclients, bytes |-> nbytes]

InitWith(starts) == InitState(starts, 0, 0)

\* threading.Thread(target=..., daemon=True).start()
StartThread(th) ==
    /\ starts_left > 0
    /\ starts_left' = starts_left - 1
    /\ threads' = Append(threads, th)

\* self.active_streams[stream_key] = {...} of a start handler: the record is
\* stored under the key, whatever is there.
Register(k, record) ==
    /\ active_streams' = DictSet(active_streams, k, record)
    /\ regAt' = [regAt EXCEPT ![k] = nappended[k]]
    /\ stopped' = [stopped EXCEPT ![k] = FALSE]
    /\ idem' = [idem EXCEPT ![k] = NoAnchor]

\* ------------------------------------------------ stream_container_logs
\* follow=True, container found: build the key and start the thread ...
stream_container_logs_spawn ==
    /\ call = Idle
    /\ StartThread([kind |-> "logs", key |-> LogsKey, pc |-> "iter", n |-> 0,
                    ev |-> NoEvent, err |-> ""])
    /\ call' = [op |-> "stream_container_logs", pc |-> "register",
                key |-> LogsKey, thread |-> Len(threads) + 1]
    /\ UNCHANGED <<active_streams, stopped, nappended, regAt, sess, idem>>
    /\ UNCHANGED relayvars

\* ... and only then register the record.
stream_container_logs_register ==
    /\ call.op = "stream_container_logs"
    /\ call.pc = "register"
    /\ Register(call.key, [buffer |-> <<>>, type |-> "logs",
                           container_id |-> Container, thread |-> call.thread])
    /\ call' = Idle
    /\ UNCHANGED <<threads, starts_left, nappended, sess>>
    /\ UNCHANGED relayvars

\* What the followed log iterator does next: a line, a line that is not
\* valid UTF-8, an exception, or the end of the stream.
LogOutcomes == {"line", "invalid", "raise", "end"}

\* for log_line in log_stream: the membership check and the build of log_data
stream_logs_iter(t) ==
    /\ threads[t].pc = "iter"
    /\ threads[t].kind = "logs"
    /\ \E outcome \in LogOutcomes :
        LET th == threads[t] IN
        CASE outcome = "end" -> SetThread(t, Exit(th))
          [] outcome = "raise" -> SetThread(t, Raise(th, "APIError"))
          [] OTHER ->
                /\ nappended[th.key] < MaxEvents
                /\ IF th.key \notin DOMAIN active_streams
                   THEN SetThread(t, Exit(th))
                   ELSE IF outcome = "invalid"
                   THEN SetThread(t, Raise(th, "UnicodeDecodeError"))
                   ELSE SetThread(t, [th EXCEPT !.pc = "guard", !.n = @ + 1,
                            !.ev = [type |-> "log_line", data |-> th.n + 1, seq |-> 0]])
    /\ UNCHANGED <<active_streams, call, starts_left, stopped, nappended, regAt, sess, idem>>
    /\ UNCHANGED relayvars

\* if stream_key not in self.active_streams: self.active_streams[stream_key] = {...}
stream_logs_guard(t) ==
    /\ threads[t].pc = "guard"
    /\ threads[t].kind = "logs"
    /\ IF threads[t].key \notin DOMAIN active_streams
       THEN RecreateRecord(threads[t].key, "logs")
       ELSE UNCHANGED <<active_streams, idem, call>>
    /\ SetThread(t, [threads[t] EXCEPT !.pc = "append"])
    /\ UNCHANGED <<starts_left, stopped, nappended, regAt, sess>>
    /\ UNCHANGED relayvars

\* self.active_streams[stream_key]["buffer"].append(log_data): KeyError when
\* the key was popped since the guard.
stream_logs_append(t) ==
    /\ threads[t].pc = "append"
    /\ threads[t].kind = "logs"
    /\ IF threads[t].key \in DOMAIN active_streams
       THEN /\ AppendEvent(threads[t].key, threads[t].ev)
            /\ SetThread(t, [threads[t] EXCEPT !.pc = "trim", !.ev = NoEvent])
       ELSE /\ SetThread(t, Raise(threads[t], "KeyError"))
            /\ UNCHANGED <<active_streams, nappended, idem, call>>
    /\ UNCHANGED <<starts_left, stopped, regAt, sess>>
    /\ UNCHANGED relayvars

\* if len(...) > 1000: ... = ...[-500:]
stream_logs_trim(t) ==
    /\ threads[t].pc = "trim"
    /\ threads[t].kind = "logs"
    /\ IF threads[t].key \in DOMAIN active_streams
       THEN /\ TrimBuffer(threads[t].key)
            /\ SetThread(t, [threads[t] EXCEPT !.pc = "iter"])
       ELSE /\ SetThread(t, Raise(threads[t], "KeyError"))
            /\ UNCHANGED <<active_streams, idem, call>>
    /\ UNCHANGED <<starts_left, stopped, nappended, regAt, sess>>
    /\ UNCHANGED relayvars

\* except Exception as e: append the error event, "error": str(e), if the key
\* is (still) there
stream_logs_except(t) ==
    /\ threads[t].pc = "except"
    /\ threads[t].kind = "logs"
    /\ IF threads[t].key \in DOMAIN active_streams
       THEN AppendEvent(threads[t].key,
                [type |-> "error", error |-> threads[t].err, seq |-> 0])
       ELSE UNCHANGED <<active_streams, nappended, idem, call>>
    /\ SetThread(t, Exit(threads[t]))
    /\ UNCHANGED <<starts_left, stopped, regAt, sess>>
    /\ UNCHANGED relayvars

\* What container.logs(tail=tail) hands to a follow=False call: the bytes of
\* the last lines, bytes that are not valid UTF-8, or an exception.
StaticOutcomes == {"logs", "invalid", "raise"}

\* The reply of a follow=False call: .decode("utf-8") is strict, so bytes
\* that are not valid UTF-8 raise like a failure of the runtime client, and
\* the handler's except clause returns the error.
StaticReply(outcome) ==
    CASE outcome = "logs" ->
            [type |-> "logs", container_id |-> Container, streaming |-> FALSE]
      [] outcome = "invalid" -> [error |-> "Error streaming logs: UnicodeDecodeError"]
      [] outcome = "raise" -> [error |-> "Error streaming logs: APIError"]

\* follow=False, container found: one read of the last lines, returned as a
\* static payload.
stream_container_logs_static_registering ==
    /\ call = Idle
    /\ \E outcome \in StaticOutcomes :
        call' = [op |-> "stream_container_logs", pc |-> "returned",
                 resp |-> StaticReply(outcome), invalid |-> outcome = "invalid"]
    /\ Register(LogsKey, [buffer |-> <<>>, type |-> "logs"])
    /\ UNCHANGED <<threads, starts_left, nappended, sess>>
    /\ UNCHANGED relayvars

stream_container_logs_static ==
    /\ call = Idle
    /\ \E outcome \in StaticOutcomes :
        call' = [op |-> "stream_container_logs", pc |-> "returned",
                 resp |-> StaticReply(outcome),
                 \* history: the bytes read were not valid UTF-8
                 invalid |-> outcome = "invalid"]
    /\ UNCHANGED <<active_streams, threads, starts_left, stopped>>
    /\ UNCHANGED streamhist
    /\ UNCHANGED relayvars

\* The handler returns its JSON to the dispatch layer.
stream_container_logs_return ==
    /\ call.op = "stream_container_logs"
    /\ call.pc = "returned"
    /\ call' = Idle
    /\ UNCHANGED <<active_streams, threads, starts_left, stopped>>
    /\ UNCHANGED streamhist
    /\ UNCHANGED relayvars

\* --------------------------------------------- stream_command_execution
\* Container found: build the key and start the thread ...
stream_command_execution_spawn ==
    /\ call = Idle
    /\ \E code \in {"0", "1"} :
        StartThread([kind |-> "exec", key |-> ExecKey, pc |-> "create", n |-> 0,
                     ev |-> NoEvent, err |-> "",
                     \* the command: the exit code it ends with, whether its
                     \* output has ended, whether the runtime client failed
                     code |-> code, finished |-> FALSE, fault |-> FALSE])
    /\ call' = [op |-> "stream_command_execution", pc |-> "register",
                key |-> ExecKey, thread |-> Len(threads) + 1]
    /\ UNCHANGED <<active_streams, stopped, nappended, regAt, sess, idem>>
    /\ UNCHANGED relayvars

\* ... and only then register the record.
stream_command_execution_register ==
    /\ call.op = "stream_command_execution"
    /\ call.pc = "register"
    /\ Register(call.key, [buffer |-> <<>>, type |-> "command",
                           container_id |-> Container, command |-> "cmd",
                           thread |-> call.thread])
    /\ call' = Idle
    /\ UNCHANGED <<threads, starts_left, nappended, sess>>
    /\ UNCHANGED relayvars

\* A worker of stream_command_execution that returned: what the command did
\* stays on record.
ExecExit(th) == [kind |-> th.kind, key |-> th.key, pc |-> "done", n |-> th.n,
                 code |-> th.code, finished |-> th.finished, fault |-> th.fault]

\* The runtime client failed: exec_create, exec_start, the output iterator or
\* exec_inspect raised, or a chunk is not valid UTF-8.
ExecFault(th, e) == [Raise(th, e) EXCEPT !.fault = TRUE]

\* exec_create and exec_start
execute_and_stream_create(t) ==
    /\ threads[t].pc = "create"
    /\ \E ok \in BOOLEAN :
        SetThread(t, IF ok THEN [threads[t] EXCEPT !.pc = "iter"]
                     ELSE ExecFault(threads[t], "APIError"))
    /\ UNCHANGED <<active_streams, call, starts_left, stopped, nappended, regAt, sess, idem>>
    /\ UNCHANGED relayvars

\* for chunk in exec_stream: the membership check (break) and the build of
\* output_data
execute_and_stream_iter(t) ==
    /\ threads[t].pc = "iter"
    /\ threads[t].kind = "exec"
    /\ \E outcome \in LogOutcomes :
        LET th == threads[t] IN
        CASE outcome = "end" -> SetThread(t, [th EXCEPT !.pc = "inspect", !.finished = TRUE])
          [] outcome = "raise" -> SetThread(t, ExecFault(th, "APIError"))
          [] OTHER ->
                /\ nappended[th.key] < MaxEvents
                /\ IF th.key \notin DOMAIN active_streams
                   THEN SetThread(t, [th EXCEPT !.pc = "inspect"])
                   ELSE IF outcome = "invalid"
                   THEN SetThread(t, ExecFault(th, "UnicodeDecodeError"))
                   ELSE SetThread(t, [th EXCEPT !.pc = "guard", !.n = @ + 1,
                            !.ev = [type |-> "command_output", data |-> th.n + 1,
                                    seq |-> 0]])
    /\ UNCHANGED <<active_streams, call, starts_left, stopped, nappended, regAt, sess, idem>>
    /\ UNCHANGED relayvars

\* if stream_key not in self.active_streams: self.active_streams[stream_key] = {...}
execute_and_stream_guard(t) ==
    /\ threads[t].pc = "guard"
    /\ threads[t].kind = "exec"
    /\ IF threads[t].key \notin DOMAIN active_streams
       THEN RecreateRecord(threads[t].key, "command")
       ELSE UNCHANGED <<active_streams, idem, call>>
    /\ SetThread(t, [threads[t] EXCEPT !.pc = "append"])
    /\ UNCHANGED <<starts_left, stopped, nappended, regAt, sess>>
    /\ UNCHANGED relayvars

\* self.active_streams[stream_key]["buffer"].append(output_data)
execute_and_stream_append(t) ==
    /\ threads[t].pc = "append"
    /\ threads[t].kind = "exec"
    /\ IF threads[t].key \in DOMAIN active_streams
       THEN /\ AppendEvent(threads[t].key, threads[t].ev)
            /\ SetThread(t, [threads[t] EXCEPT !.pc = "trim", !.ev = NoEvent])
       ELSE /\ SetThread(t, Raise(threads[t], "KeyError"))
            /\ UNCHANGED <<active_streams, nappended, idem, call>>
    /\ UNCHANGED <<starts_left, stopped, regAt, sess>>
    /\ UNCHANGED relayvars

\* if len(...) > 1000: ... = ...[-500:]
execute_and_stream_trim(t) ==
    /\ threads[t].pc = "trim"
    /\ threads[t].kind = "exec"
    /\ IF threads[t].key \in DOMAIN active_streams
       THEN /\ TrimBuffer(threads[t].key)
            /\ SetThread(t, [threads[t] EXCEPT !.pc = "iter"])
       ELSE /\ SetThread(t, Raise(threads[t], "KeyError"))
            /\ UNCHANGED <<active_streams, idem, call>>
    /\ UNCHANGED <<starts_left, stopped, nappended, regAt, sess>>
    /\ UNCHANGED relayvars

\* exec_info.get("ExitCode", 0): the runtime reports ExitCode None while the
\* command has not ended
ExitCode(th, ended) == IF ended THEN th.code ELSE "None"

\* exec_inspect and the build of completion_data, after the loop has ended or
\* was left by break
execute_and_stream_inspect(t) ==
    /\ threads[t].pc = "inspect"
    \* a command whose output was left by break may have ended by now, or not
    /\ \E ok \in BOOLEAN, ended \in BOOLEAN :
        /\ threads[t].finished => ended
        /\ SetThread(t, IF ok
                        THEN [threads[t] EXCEPT !.pc = "complete",
                                !.ev = [type |-> "command_completed",
                                        exit_code |-> ExitCode(threads[t], ended),
                                        seq |-> 0]]
                        ELSE ExecFault(threads[t], "APIError"))
    /\ UNCHANGED <<active_streams, call, starts_left, stopped, nappended, regAt, sess, idem>>
    /\ UNCHANGED relayvars

\* if stream_key in self.active_streams: ...["buffer"].append(completion_data)
execute_and_stream_complete(t) ==
    /\ threads[t].pc = "complete"
    /\ IF threads[t].key \in DOMAIN active_streams
       THEN AppendEvent(threads[t].key, threads[t].ev)
       ELSE UNCHANGED <<active_streams, nappended, idem, call>>
    /\ SetThread(t, ExecExit(threads[t]))
    /\ UNCHANGED <<starts_left, stopped, regAt, sess>>
    /\ UNCHANGED relayvars

\* except Exception as e: append command_error if the key is (still) there
execute_and_stream_except(t) ==
    /\ threads[t].pc = "except"
    /\ threads[t].kind = "exec"
    /\ IF threads[t].key \in DOMAIN active_streams
       THEN AppendEvent(threads[t].key,
                [type |-> "command_error", error |-> threads[t].err, seq |-> 0])
       ELSE UNCHANGED <<active_streams, nappended, idem, call>>
    /\ SetThread(t, ExecExit(threads[t]))
    /\ UNCHANGED <<starts_left, stopped, regAt, sess>>
    /\ UNCHANGED relayvars

\* --------------------------------------------- start_realtime_monitoring
\* f"realtime_{container_id or 'all'}_{int(time.time())}"
RealtimeKeyOf(container_id) ==
    IF container_id = Container THEN RealtimeKey ELSE RealtimeUnknownKey

\* WebSocket support enabled: build the key and start the thread, for
\* whatever container id the caller gives; the handler does not look the
\* container up ...
start_realtime_monitoring_spawn_for(container_id) ==
    /\ call = Idle
    /\ StartThread([kind |-> "realtime", key |-> RealtimeKeyOf(container_id),
                    pc |-> "while", ev |-> NoEvent, container_id |-> container_id])
    /\ call' = [op |-> "start_realtime_monitoring", pc |-> "register",
                key |-> RealtimeKeyOf(container_id), thread |-> Len(threads) + 1,
                container_id |-> container_id]
    /\ UNCHANGED <<active_streams, stopped, nappended, regAt, sess, idem>>
    /\ UNCHANGED relayvars

start_realtime_monitoring_spawn == start_realtime_monitoring_spawn_for(Container)

\* ... and only then register the record.
start_realtime_monitoring_register ==
    /\ call.op = "start_realtime_monitoring"
    /\ call.pc = "register"
    /\ Register(call.key, [buffer |-> <<>>, type |-> "realtime",
                           thread |-> call.thread, container_id |-> call.container_id])
    /\ call' = Idle
    /\ UNCHANGED <<threads, starts_left, nappended, sess>>
    /\ UNCHANGED relayvars

\* One round of monitoring: the container's stats, an error entry when the
\* container is not found (it was never there, or it was removed since), or
\* an exception of the runtime client.
MonitorOutcomes == {"container_stats", "error", "raise"}

\* while stream_key in self.active_streams: and the build of monitoring_data
monitor_loop_while(t) ==
    /\ threads[t].pc = "while"
    /\ LET th == threads[t] IN
       IF th.key \notin DOMAIN active_streams
       THEN SetThread(t, Exit(th))
       ELSE /\ nappended[th.key] < MaxEvents
            /\ \E outcome \in MonitorOutcomes :
                /\ outcome = "container_stats"
                        => _find_container(th.container_id) # "None"
                /\ SetThread(t, IF outcome = "raise" THEN Exit(th)
                                ELSE [th EXCEPT !.pc = "guard",
                                       !.ev = [type |-> outcome, seq |-> 0]])
    /\ UNCHANGED <<active_streams, call, starts_left, stopped, nappended, regAt, sess, idem>>
    /\ UNCHANGED relayvars

\* if stream_key not in self.active_streams: self.active_streams[stream_key] = {...}
monitor_loop_guard(t) ==
    /\ threads[t].pc = "guard"
    /\ threads[t].kind = "realtime"
    /\ IF threads[t].key \notin DOMAIN active_streams
       THEN RecreateRecord(threads[t].key, "realtime")
       ELSE UNCHANGED <<active_streams, idem, call>>
    /\ SetThread(t, [threads[t] EXCEPT !.pc = "append"])
    /\ UNCHANGED <<starts_left, stopped, nappended, regAt, sess>>
    /\ UNCHANGED relayvars

\* ...["buffer"].append(monitoring_data), with no trim after it; a KeyError
\* is logged and ends the loop.
monitor_loop_append(t) ==
    /\ threads[t].pc = "append"
    /\ threads[t].kind = "realtime"
    /\ IF threads[t].key \in DOMAIN active_streams
       THEN /\ AppendEvent(threads[t].key, threads[t].ev)
            /\ SetThread(t, [threads[t] EXCEPT !.pc = "broadcast", !.ev = NoEvent])
       ELSE /\ SetThread(t, Exit(threads[t]))
            /\ UNCHANGED <<active_streams, nappended, idem, call>>
    /\ UNCHANGED <<starts_left, stopped, regAt, sess>>
    /\ UNCHANGED relayvars

\* self._broadcast_to_websockets(monitoring_data); time.sleep(1)
monitor_loop_broadcast(t) ==
    /\ threads[t].pc = "broadcast"
    /\ \E ok \in BOOLEAN :
        SetThread(t, IF ok THEN [threads[t] EXCEPT !.pc = "while"] ELSE Exit(threads[t]))
    /\ UNCHANGED <<active_streams, call, starts_left, stopped, nappended, regAt, sess, idem>>
    /\ UNCHANGED relayvars

\* ------------------------------------------------------------ stop_stream
stop_stream(k) ==
    /\ call = Idle
    /\ IF k \in DOMAIN active_streams
       THEN /\ active_streams' = DictPop(active_streams, k)
            /\ stopped' = [stopped EXCEPT ![k] = TRUE]
            /\ idem' = [idem EXCEPT ![k] = NoAnchor]
            /\ call' = [op |-> "stop_stream", pc |-> "returned", key |-> k,
                        resp |-> [type |-> "stream_stopped", stream_key |-> k],
                        \* history: a stop of this key had already succeeded
                        \* since its last start
                        again |-> stopped[k]]
       ELSE /\ call' = [op |-> "stop_stream", pc |-> "returned", key |-> k,
                        resp |-> [error |-> "not found"], again |-> stopped[k]]
            /\ UNCHANGED <<active_streams, stopped, idem>>
    /\ UNCHANGED <<threads, starts_left, nappended, regAt, sess>>
    /\ UNCHANGED relayvars

\* The handler returns its JSON to the dispatch layer.
stop_stream_return ==
    /\ call.op = "stop_stream"
    /\ call.pc = "returned"
    /\ call' = Idle
    /\ UNCHANGED <<active_streams, threads, starts_left, stopped>>
    /\ UNCHANGED streamhist
    /\ UNCHANGED relayvars

\* -------------------------------------------------------- get_stream_data
\* buffer[last_index:]
NewDataOverlap(buffer, last_index) == PySliceFrom(buffer, Max(last_index - 1, 0))
NewData(buffer, last_index) == PySliceFrom(buffer, last_index)

\* "last_index": len(buffer)
ReplyIndexShort(buffer) == Max(Len(buffer) - 1, 0)
ReplyIndex(buffer) == Len(buffer)

\* "has_more": len(new_data) > 0
HasMore(new_data) == Len(new_data) > 0

\* The cursors a caller passes: 0 at first, the cursor of its previous reply,
\* or once more the cursor it has just read at.
ReadArgs(k) ==
    {0, sess[k].cursor} \cup (IF idem[k].set THEN {idem[k].k} ELSE {})

\* The membership test, buffer = stream_data.get("buffer", []) and the slice.
get_stream_data_slice(k, last_index) ==
    /\ call = Idle
    /\ IF k \notin DOMAIN active_streams
       THEN call' = [op |-> "get_stream_data", pc |-> "returned", key |-> k,
                     last_index |-> last_index,
                     resp |-> [error |-> "not found"]]
       ELSE LET buffer == active_streams[k].buffer IN
            call' = [op |-> "get_stream_data", pc |-> "reply", key |-> k,
                     last_index |-> last_index,
                     buffer |-> buffer, alias |-> TRUE,
                     new_data |-> NewData(buffer, last_index),
                     \* history: the stream as it was when the slice was taken
                     snap |-> Seqs(buffer),
                     count |-> nappended[k] - regAt[k],
                     started |-> "thread" \in DOMAIN active_streams[k]]
    /\ UNCHANGED <<active_streams, threads, starts_left, stopped, nappended, regAt,
                   sess, idem>>
    /\ UNCHANGED relayvars

\* json.dumps({...}): len(buffer) is read now, from the list object the
\* handler holds.
get_stream_data_reply ==
    /\ call.op = "get_stream_data"
    /\ call.pc = "reply"
    /\ LET k == call.key
           resp == [type |-> "stream_data", stream_key |-> k,
                    last_index |-> ReplyIndex(call.buffer),
                    data |-> call.new_data,
                    has_more |-> HasMore(call.new_data)]
           chained == call.last_index = sess[k].cursor
           result == [n |-> Len(resp.data), has_more |-> resp.has_more,
                      cursor |-> resp.last_index]
       IN
       /\ call' = [op |-> "get_stream_data", pc |-> "returned", key |-> k,
                   last_index |-> call.last_index, resp |-> resp,
                   snap |-> call.snap, count |-> call.count,
                   started |-> call.started, chained |-> chained]
       /\ sess' = IF chained
                  THEN [sess EXCEPT ![k] = [cursor |-> resp.last_index,
                            received |-> @.received \o Seqs(resp.data),
                            atomic |-> @.atomic /\ call.alias
                                        /\ Len(call.buffer) = Len(call.snap)]]
                  ELSE sess
       /\ idem' = IF idem[k].set /\ idem[k].k = call.last_index
                  THEN [idem EXCEPT ![k].results =
                            IF Len(@) < 2 THEN Append(@, result)
                            ELSE <<@[2], result>>]
                  ELSE [idem EXCEPT ![k] = [set |-> TRUE, k |-> resp.last_index,
                                            results |-> <<>>]]
    /\ UNCHANGED <<active_streams, threads, starts_left, stopped, nappended, regAt>>
    /\ UNCHANGED relayvars

\* The handler returns its JSON to the dispatch layer.
get_stream_data_return ==
    /\ call.op = "get_stream_data"
    /\ call.pc = "returned"
    /\ call' = Idle
    /\ UNCHANGED <<active_streams, threads, starts_left, stopped, nappended, regAt,
                   sess, idem>>
    /\ UNCHANGED relayvars

\* ------------------------------------------------------- start_port_stream
\* if stream_key in self.active_streams
AlreadyActiveNever(k) == FALSE
AlreadyActive(k) == k \in DOMAIN active_streams

\* container_id[:12]
ShortIdLen == 12
ShortId(container_id) ==
    SubSeq(IdText[container_id], 1, Min(ShortIdLen, Len(IdText[container_id])))

\* stream_key = f"{container_id[:12]}:{container_port}", for ContainerPort
PortStreamKey(container_id) ==
    CASE ShortId(container_id) = <<"c", "1">> -> RelayKey
      [] ShortId(container_id) = <<"c">> -> RelayAliasKey
      [] ShortId(container_id) = <<"c", "0">> -> "c0:8080"

\* Container found: the key, the test for an active stream, and the start of
\* the listener thread ...
start_port_stream_spawn_for(container_id) ==
    /\ call = Idle
    /\ _find_container(container_id) # "None"
    /\ LET stream_key == PortStreamKey(container_id) IN
       IF AlreadyActive(stream_key)
       THEN /\ call' = [op |-> "start_port_stream", pc |-> "returned",
                        container_id |-> container_id,
                        key |-> stream_key, resp |-> "already active"]
            /\ UNCHANGED <<threads, starts_left>>
       ELSE /\ StartThread([kind |-> "relay", key |-> stream_key, pc |-> "bind",
                            bound |-> FALSE])
            /\ call' = [op |-> "start_port_stream", pc |-> "register",
                        container_id |-> container_id,
                        key |-> stream_key, thread |-> Len(threads) + 1]
    /\ UNCHANGED <<active_streams, stopped>>
    /\ UNCHANGED streamhist
    /\ UNCHANGED relayvars

start_port_stream_spawn == start_port_stream_spawn_for(Container)

\* ... and only then the record, with the id as it was given; the reply is
\* "Started streaming ...".
start_port_stream_register ==
    /\ call.op = "start_port_stream"
    /\ call.pc = "register"
    /\ Register(call.key, [container_id |-> call.container_id,
                           container_port |-> ContainerPort,
                           host_port |-> HostPort, thread |-> call.thread])
    /\ call' = [op |-> "start_port_stream", pc |-> "returned",
                container_id |-> call.container_id, key |-> call.key,
                resp |-> "started", thread |-> call.thread]
    /\ UNCHANGED <<threads, starts_left, nappended, sess>>
    /\ UNCHANGED relayvars

start_port_stream_return ==
    /\ call.op = "start_port_stream"
    /\ call.pc = "returned"
    /\ call' = Idle
    /\ UNCHANGED <<active_streams, threads, starts_left, stopped>>
    /\ UNCHANGED streamhist
    /\ UNCHANGED relayvars

\* -------------------------------------------------------- stop_port_stream
\* The membership test and the pop; nothing else is touched.
stop_port_stream_closing ==
    /\ call = Idle
    /\ RelayKey \in DOMAIN active_streams
    /\ active_streams' = DictPop(active_streams, RelayKey)
    /\ stopped' = [stopped EXCEPT ![RelayKey] = TRUE]
    /\ call' = [op |-> "stop_port_stream", pc |-> "returned", key |-> RelayKey,
                resp |-> "stopped", thread |-> active_streams[RelayKey].thread]
    /\ conns' = [c \in DOMAIN conns |->
                    [conns[c] EXCEPT !.client_socket = "closed"]]
    /\ UNCHANGED <<threads, starts_left, host_port, clients>>
    /\ UNCHANGED streamhist

stop_port_stream ==
    /\ call = Idle
    /\ IF RelayKey \in DOMAIN active_streams
       THEN /\ active_streams' = DictPop(active_streams, RelayKey)
            /\ stopped' = [stopped EXCEPT ![RelayKey] = TRUE]
            /\ call' = [op |-> "stop_port_stream", pc |-> "returned", key |-> RelayKey,
                        resp |-> "stopped",
                        \* history: the listener the popped record names
                        thread |-> active_streams[RelayKey].thread]
       ELSE /\ call' = [op |-> "stop_port_stream", pc |-> "returned", key |-> RelayKey,
                        resp |-> "no active stream"]
            /\ UNCHANGED <<active_streams, stopped>>
    /\ UNCHANGED <<threads, starts_left>>
    /\ UNCHANGED streamhist
    /\ UNCHANGED relayvars

stop_port_stream_return ==
    /\ call.op = "stop_port_stream"
    /\ call.pc = "returned"
    /\ call' = Idle
    /\ UNCHANGED <<active_streams, threads, starts_left, stopped>>
    /\ UNCHANGED streamhist
    /\ UNCHANGED relayvars

\* ----------------------------------------------------- list_active_streams
\* The fields the loop reads from every record of the registry, relay or not.
RelayFields == {"container_id", "container_port", "host_port"}

\* f"{container_id}:{container_port} -> localhost:{host_port}"
StreamLine(stream_info) ==
    [container_id |-> stream_info.container_id,
     container_port |-> stream_info.container_port,
     host_port |-> stream_info.host_port]

\* No try around the loop: a record without one of the fields raises KeyError
\* out of the tool.
list_active_streams ==
    /\ call = Idle
    /\ call' = [op |-> "list_active_streams", pc |-> "returned",
                \* history: the registry the call ran on
                registry |-> active_streams,
                resp |->
                  IF DOMAIN active_streams = {}
                  THEN [none |-> "No active streams"]
                  ELSE IF \E k \in DOMAIN active_streams :
                            ~(RelayFields \subseteq DOMAIN active_streams[k])
                  THEN [raised |-> "KeyError"]
                  ELSE [streams |-> [k \in DOMAIN active_streams |->
                                        StreamLine(active_streams[k])]]]
    /\ UNCHANGED <<active_streams, threads, starts_left, stopped>>
    /\ UNCHANGED streamhist
    /\ UNCHANGED relayvars

list_active_streams_return ==
    /\ call.op = "list_active_streams"
    /\ call.pc = "returned"
    /\ call' = Idle
    /\ UNCHANGED <<active_streams, threads, starts_left, stopped>>
    /\ UNCHANGED streamhist
    /\ UNCHANGED relayvars

\* ---------------------------------------------------- _start_stream_server
\* A listener that returned; whether it had bound the port stays on record.
RelayExit(th) == [kind |-> th.kind, key |-> th.key, pc |-> "done", bound |-> th.bound]

\* socket(), bind(("localhost", host_port)), listen(5), settimeout(1.0): the
\* port is free, or it is held by a listener of this process or by another
\* process, and bind raises; the outer except passes.
_start_stream_server_bind(t) ==
    /\ threads[t].kind = "relay"
    /\ threads[t].pc = "bind"
    /\ \E free \in BOOLEAN :
        IF free /\ host_port = 0
        THEN /\ host_port' = t
             /\ SetThread(t, [threads[t] EXCEPT !.pc = "while", !.bound = TRUE])
        ELSE /\ SetThread(t, RelayExit(threads[t]))
             /\ UNCHANGED host_port
    /\ UNCHANGED <<active_streams, call, starts_left, stopped, conns, clients>>
    /\ UNCHANGED streamhist

\* while stream_key in self.active_streams
_start_stream_server_while(t) ==
    /\ threads[t].kind = "relay"
    /\ threads[t].pc = "while"
    /\ SetThread(t, [threads[t] EXCEPT !.pc =
            IF threads[t].key \in DOMAIN active_streams THEN "accept" ELSE "close"])
    /\ UNCHANGED <<active_streams, call, starts_left, stopped>>
    /\ UNCHANGED streamhist
    /\ UNCHANGED relayvars

\* A connection as accept() hands it over, its handler thread started:
\* client_socket is open, container_socket is not made yet, the forwarders
\* are not started.  The peers: `unsent` bytes the client has still to send,
\* cin the bytes it sent that the relay has not read, srv the bytes the
\* container's service received, sout the bytes it echoed that the relay has
\* not read, crx the bytes the client received, errmsg the error line it got.
NoForwarder == [pc |-> "unstarted", data |-> <<>>, why |-> ""]

NewConn(t) ==
    [listener |-> t, pc |-> "resolve", err |-> "",
     client_socket |-> "open", container_socket |-> "none",
     c2s |-> NoForwarder, s2c |-> NoForwarder,
     unsent |-> clients.bytes, client_closed |-> FALSE,
     cin |-> <<>>, srv |-> <<>>, sout |-> <<>>, crx |-> <<>>, errmsg |-> ""]

AcceptOutcomes == {"timeout", "client", "error"}

\* server_socket.accept(): a client, socket.timeout after one second
\* (continue), or another exception (break)
_start_stream_server_accept(t) ==
    /\ threads[t].kind = "relay"
    /\ threads[t].pc = "accept"
    /\ \E outcome \in AcceptOutcomes :
        CASE outcome = "timeout" ->
                /\ SetThread(t, [threads[t] EXCEPT !.pc = "while"])
                /\ UNCHANGED <<conns, clients>>
          [] outcome = "client" ->
                /\ clients.left > 0
                /\ conns' = Append(conns, NewConn(t))
                /\ clients' = [clients EXCEPT !.left = @ - 1]
                /\ SetThread(t, [threads[t] EXCEPT !.pc = "while"])
          [] outcome = "error" ->
                /\ SetThread(t, [threads[t] EXCEPT !.pc = "close"])
                /\ UNCHANGED <<conns, clients>>
    /\ UNCHANGED <<active_streams, call, starts_left, stopped, host_port>>
    /\ UNCHANGED streamhist

\* server_socket.close()
_start_stream_server_close(t) ==
    /\ threads[t].kind = "relay"
    /\ threads[t].pc = "close"
    /\ host_port' = IF host_port = t THEN 0 ELSE host_port
    /\ SetThread(t, RelayExit(threads[t]))
    /\ UNCHANGED <<active_streams, call, starts_left, stopped, conns, clients>>
    /\ UNCHANGED streamhist

\* ---------------------------------------------------- _handle_stream_client
SetConn(c, rec) == conns' = [conns EXCEPT ![c] = rec]

\* What the handler and the forwarders of a connection leave alone.
connframe == <<active_streams, threads, call, starts_left, stopped, host_port, clients>>

\* The line the handler writes to its client when it fails.
NoErrorReply(e) == ""
ErrorReply(e) ==
    IF e = "no ip" THEN "Error: Could not determine container IP"
    ELSE "Stream error: " \o e

ResolveOutcomes == {"ip", "no ip", "raise"}

\* container.reload() and the lookup of the container's IP address: found,
\* empty (the error line is sent and the handler returns), or an exception
_handle_stream_client_resolve(c) ==
    /\ conns[c].pc = "resolve"
    /\ \E outcome \in ResolveOutcomes :
        SetConn(c, CASE outcome = "ip" -> [conns[c] EXCEPT !.pc = "connect"]
                     [] outcome = "no ip" ->
                            [conns[c] EXCEPT !.pc = "finally", !.err = "no ip",
                                             !.errmsg = ErrorReply("no ip")]
                     [] outcome = "raise" ->
                            [conns[c] EXCEPT !.pc = "except", !.err = "APIError"])
    /\ UNCHANGED connframe
    /\ UNCHANGED streamhist

\* container.attrs["NetworkSettings"] as container.reload() fetches it: the
\* primary address, empty for a container that is not on the default bridge,
\* and the dict of network attachments, which keeps the order in which the
\* entries were inserted.
PrimaryAddresses == {"", "172.17.0.2"}

NetworkEntries ==
    [name : {"alpha"}, IPAddress : {"", "10.1.0.2"}]
        \cup [name : {"beta"}, IPAddress : {"", "10.2.0.2"}]

NetworkDicts ==
    {<<>>} \cup {<<n>> : n \in NetworkEntries}
        \cup {e \in NetworkEntries \X NetworkEntries : e[1].name # e[2].name}

NetworkSettings == [IPAddress : PrimaryAddresses, Networks : NetworkDicts]

\* container_ip = attrs["NetworkSettings"]["IPAddress"]; if it is empty and
\* there are networks, list(networks.values())[0]["IPAddress"]
ContainerIp(attrs) ==
    IF attrs.IPAddress # "" THEN attrs.IPAddress
    ELSE IF attrs.Networks # <<>> THEN attrs.Networks[1].IPAddress
    ELSE ""

\* container.reload() and the lookup of the container's IP address, with the
\* network settings spelt out: reload raises, or the address is looked up in
\* the settings it fetched; an empty address sends the error line and
\* returns.
_handle_stream_client_lookup(c) ==
    /\ conns[c].pc = "resolve"
    /\ \E raised \in BOOLEAN, attrs \in NetworkSettings :
        LET container_ip == ContainerIp(attrs)
            \* history: the settings read and the address taken from them
            conn == [attrs |-> attrs, container_ip |-> container_ip] @@ conns[c]
        IN  SetConn(c, IF raised
                       THEN [conns[c] EXCEPT !.pc = "except", !.err = "APIError"]
                       ELSE IF container_ip = ""
                       THEN [conn EXCEPT !.pc = "finally", !.err = "no ip",
                                         !.errmsg = ErrorReply("no ip")]
                       ELSE [conn EXCEPT !.pc = "connect"])
    /\ UNCHANGED connframe
    /\ UNCHANGED streamhist

\* container_socket.connect((container_ip, container_port)), timeout 5.0
_handle_stream_client_connect(c) ==
    /\ conns[c].pc = "connect"
    /\ \E ok \in BOOLEAN :
        SetConn(c, IF ok
                   THEN [conns[c] EXCEPT !.pc = "start", !.container_socket = "open"]
                   ELSE [conns[c] EXCEPT !.pc = "except", !.err = "ConnectionRefusedError"])
    /\ UNCHANGED connframe
    /\ UNCHANGED streamhist

\* client_to_container.start(); container_to_client.start()
_handle_stream_client_start(c) ==
    /\ conns[c].pc = "start"
    /\ SetConn(c, [conns[c] EXCEPT !.pc = "join",
                                   !.c2s = [pc |-> "while", data |-> <<>>, why |-> ""],
                                   !.s2c = [pc |-> "while", data |-> <<>>, why |-> ""]])
    /\ UNCHANGED connframe
    /\ UNCHANGED streamhist

\* client_to_container.join(); container_to_client.join(): the handler goes
\* on when both forwarders have returned, whichever returned first.
_handle_stream_client_join_first(c) ==
    /\ conns[c].pc = "join"
    /\ conns[c].c2s.pc = "done"
    /\ SetConn(c, [conns[c] EXCEPT !.pc = "finally"])
    /\ UNCHANGED connframe
    /\ UNCHANGED streamhist

\* client_to_container.join(); container_to_client.join()
_handle_stream_client_join(c) ==
    /\ conns[c].pc = "join"
    /\ conns[c].c2s.pc = "done"
    /\ conns[c].s2c.pc = "done"
    /\ SetConn(c, [conns[c] EXCEPT !.pc = "finally"])
    /\ UNCHANGED connframe
    /\ UNCHANGED streamhist

\* except Exception as e: client_socket.send(f"Stream error: {str(e)}\n")
_handle_stream_client_except(c) ==
    /\ conns[c].pc = "except"
    /\ SetConn(c, [conns[c] EXCEPT !.pc = "finally", !.errmsg = ErrorReply(conns[c].err)])
    /\ UNCHANGED connframe
    /\ UNCHANGED streamhist

\* finally: container_socket.close(); client_socket.close()
_handle_stream_client_finally(c) ==
    /\ conns[c].pc = "finally"
    /\ SetConn(c, [conns[c] EXCEPT !.pc = "done", !.container_socket = "closed",
                                   !.client_socket = "closed"])
    /\ UNCHANGED connframe
    /\ UNCHANGED streamhist

\* ------------------------------------------------------------ forward_data
\* The two forwarders of a connection: client_to_container reads
\* client_socket and writes container_socket, container_to_client the other
\* way round.
Directions == {"c2s", "s2c"}

\* The connection whose socket forwarder d of connection c writes to: its own.
ToSocketShared(c, d) == 1
ToSocket(c, d) == c

Forwarder(c, d) == IF d = "c2s" THEN conns[c].c2s ELSE conns[c].s2c

WithForwarder(conn, d, f) ==
    IF d = "c2s" THEN [conn EXCEPT !.c2s = f] ELSE [conn EXCEPT !.s2c = f]

FwdDone(why) == [pc |-> "done", data |-> <<>>, why |-> why]

\* while stream_key in self.active_streams
forward_data_while(c, d) ==
    /\ Forwarder(c, d).pc = "while"
    /\ SetConn(c, WithForwarder(conns[c], d,
            IF RelayKey \in DOMAIN active_streams
            THEN [Forwarder(c, d) EXCEPT !.pc = "recv"]
            ELSE FwdDone("stopped")))
    /\ UNCHANGED connframe
    /\ UNCHANGED streamhist

\* data = from_socket.recv(4096): what has arrived; b"" once the client has
\* closed (break); container_socket carries the timeout of 5.0 set for the
\* connect, so the read of a silent container raises socket.timeout; the
\* read of the blocking client_socket waits.
forward_data_recv(c, d) ==
    /\ Forwarder(c, d).pc = "recv"
    /\ LET conn == conns[c]
           arrived == IF d = "c2s" THEN conn.cin ELSE conn.sout
       IN
       IF arrived # <<>>
       THEN SetConn(c, WithForwarder(
                IF d = "c2s" THEN [conn EXCEPT !.cin = <<>>] ELSE [conn EXCEPT !.sout = <<>>],
                d, [Forwarder(c, d) EXCEPT !.pc = "send", !.data = arrived]))
       ELSE IF d = "s2c"
       THEN SetConn(c, WithForwarder(conn, d, FwdDone("error")))
       ELSE /\ conn.client_closed
            /\ SetConn(c, WithForwarder(conn, d, FwdDone("eof")))
    /\ UNCHANGED connframe
    /\ UNCHANGED streamhist

\* How many of the n bytes one send() takes: all of them on the blocking
\* client_socket; on container_socket, which is in timeout mode, any number
\* from 1 to n.  The return value is not looked at.
Accepted(d, n) == IF d = "c2s" THEN 1..n ELSE {n}

\* to_socket.send(data): the bytes taken reach the peer; the service behind
\* container_socket echoes what it receives.  A send to a client that has
\* closed raises, and the bare except ends the forwarder.
forward_data_send(c, d) ==
    /\ Forwarder(c, d).pc = "send"
    /\ LET data == Forwarder(c, d).data
           to == ToSocket(c, d)
       IN
       IF d = "s2c" /\ conns[to].client_closed
       THEN SetConn(c, WithForwarder(conns[c], d, FwdDone("error")))
       ELSE \E n \in Accepted(d, Len(data)) :
            LET taken == SubSeq(data, 1, n)
                back == [pc |-> "while", data |-> <<>>, why |-> ""]
            IN  conns' = [x \in DOMAIN conns |->
                    LET mine == IF x = c THEN WithForwarder(conns[x], d, back)
                                ELSE conns[x]
                    IN  IF x # to THEN mine
                        ELSE IF d = "c2s"
                        THEN [mine EXCEPT !.srv = @ \o taken, !.sout = @ \o taken]
                        ELSE [mine EXCEPT !.crx = @ \o taken]]
    /\ UNCHANGED connframe
    /\ UNCHANGED streamhist

\* ------------------------------------------------------------- the clients
\* A client writes its next byte to the host port's connection ...
client_send(c) ==
    /\ conns[c].unsent > 0
    /\ ~conns[c].client_closed
    /\ SetConn(c, [conns[c] EXCEPT
            !.unsent = @ - 1,
            !.cin = Append(@, [conn |-> c, i |-> clients.bytes - conns[c].unsent + 1])])
    /\ UNCHANGED connframe
    /\ UNCHANGED streamhist

\* ... and closes its end.
client_close(c) ==
    /\ ~conns[c].client_closed
    /\ SetConn(c, [conns[c] EXCEPT !.client_closed = TRUE])
    /\ UNCHANGED connframe
    /\ UNCHANGED streamhist

\* ------------------------------------------- calls for an unknown container
\* container = self._find_container(container_id); if not container: return
\* the error.  The first statements of stream_container_logs,
\* stream_command_execution and start_port_stream; start_realtime_monitoring
\* has no such test.
stream_container_logs_not_found(container_id) ==
    /\ call = Idle
    /\ _find_container(container_id) = "None"
    /\ call' = [op |-> "stream_container_logs", pc |-> "returned",
                container_id |-> container_id,
                resp |-> [error |-> "not found"], invalid |-> FALSE]
    /\ UNCHANGED <<active_streams, threads, starts_left, stopped>>
    /\ UNCHANGED streamhist
    /\ UNCHANGED relayvars

stream_command_execution_not_found(container_id) ==
    /\ call = Idle
    /\ _find_container(container_id) = "None"
    /\ call' = [op |-> "stream_command_execution", pc |-> "returned",
                container_id |-> container_id,
                resp |-> [error |-> "not found"]]
    /\ UNCHANGED <<active_streams, threads, starts_left, stopped>>
    /\ UNCHANGED streamhist
    /\ UNCHANGED relayvars

stream_command_execution_return ==
    /\ call.op = "stream_command_execution"
    /\ call.pc = "returned"
    /\ call' = Idle
    /\ UNCHANGED <<active_streams, threads, starts_left, stopped>>
    /\ UNCHANGED streamhist
    /\ UNCHANGED relayvars

start_port_stream_not_found(container_id) ==
    /\ call = Idle
    /\ _find_container(container_id) = "None"
    /\ call' = [op |-> "start_port_stream", pc |-> "returned",
                container_id |-> container_id,
                key |-> RelayKey, resp |-> "not found"]
    /\ UNCHANGED <<active_streams, threads, starts_left, stopped>>
    /\ UNCHANGED streamhist
    /\ UNCHANGED relayvars

\* ------------------------------------------------------------------ Spec
\* One followed log stream, from its single start: the producer, stop_stream,
\* and callers of get_stream_data.
Init == InitWith(1)

Next ==
    \/ stream_container_logs_spawn
    \/ stream_container_logs_register
    \/ \E t \in DOMAIN threads : stream_logs_iter(t)
    \/ \E t \in DOMAIN threads : stream_logs_guard(t)
    \/ \E t \in DOMAIN threads : stream_logs_append(t)
    \/ \E t \in DOMAIN threads : stream_logs_trim(t)
    \/ \E t \in DOMAIN threads : stream_logs_except(t)
    \/ stop_stream(LogsKey)
    \/ stop_stream_return
    \/ \E last_index \in ReadArgs(LogsKey) : get_stream_data_slice(LogsKey, last_index)
    \/ get_stream_data_reply
    \/ get_stream_data_return

Spec == Init /\ [][Next]_vars

\* -------------------------------------------------------------- SpecExec
\* Command streams of one container started within one second, their
\* producers and stop_stream.
InitExec == InitWith(MaxThreads)

NextExec ==
    \/ stream_command_execution_spawn
    \/ stream_command_execution_register
    \/ \E t \in DOMAIN threads : execute_and_stream_create(t)
    \/ \E t \in DOMAIN threads : execute_and_stream_iter(t)
    \/ \E t \in DOMAIN threads : execute_and_stream_guard(t)
    \/ \E t \in DOMAIN threads : execute_and_stream_append(t)
    \/ \E t \in DOMAIN threads : execute_and_stream_trim(t)
    \/ \E t \in DOMAIN threads : execute_and_stream_inspect(t)
    \/ \E t \in DOMAIN threads : execute_and_stream_complete(t)
    \/ \E t \in DOMAIN threads : execute_and_stream_except(t)
    \/ stop_stream(ExecKey)
    \/ stop_stream_return

SpecExec == InitExec /\ [][NextExec]_vars

\* ---------------------------------------------------------- SpecRealtime
\* One realtime monitoring stream, from its start, and stop_stream.
InitRealtime == InitWith(1)

NextRealtime ==
    \/ start_realtime_monitoring_spawn
    \/ start_realtime_monitoring_register
    \/ \E t \in DOMAIN threads : monitor_loop_while(t)
    \/ \E t \in DOMAIN threads : monitor_loop_guard(t)
    \/ \E t \in DOMAIN threads : monitor_loop_append(t)
    \/ \E t \in DOMAIN threads : monitor_loop_broadcast(t)
    \/ stop_stream(RealtimeKey)
    \/ stop_stream_return

SpecRealtime == InitRealtime /\ [][NextRealtime]_vars

\* ------------------------------------------------------------- SpecRelay
\* One port relay, from its single start: the listener, the connections of
\* MaxConns clients that send one byte each to an echo service, and the
\* start and stop handlers.
InitRelay == InitState(1, MaxConns, 1)

NextRelay ==
    \/ start_port_stream_spawn
    \/ start_port_stream_register
    \/ start_port_stream_return
    \/ stop_port_stream
    \/ stop_port_stream_return
    \/ \E t \in DOMAIN threads : _start_stream_server_bind(t)
    \/ \E t \in DOMAIN threads : _start_stream_server_while(t)
    \/ \E t \in DOMAIN threads : _start_stream_server_accept(t)
    \/ \E t \in DOMAIN threads : _start_stream_server_close(t)
    \/ \E c \in DOMAIN conns : _handle_stream_client_resolve(c)
    \/ \E c \in DOMAIN conns : _handle_stream_client_connect(c)
    \/ \E c \in DOMAIN conns : _handle_stream_client_start(c)
    \/ \E c \in DOMAIN conns : _handle_stream_client_join(c)
    \/ \E c \in DOMAIN conns : _handle_stream_client_except(c)
    \/ \E c \in DOMAIN conns : _handle_stream_client_finally(c)
    \/ \E c \in DOMAIN conns, d \in Directions : forward_data_while(c, d)
    \/ \E c \in DOMAIN conns, d \in Directions : forward_data_recv(c, d)
    \/ \E c \in DOMAIN conns, d \in Directions : forward_data_send(c, d)
    \/ \E c \in DOMAIN conns : client_send(c)
    \/ \E c \in DOMAIN conns : client_close(c)

SpecRelay == InitRelay /\ [][NextRelay]_vars

\* -------------------------------------------------------- SpecRelayStart
\* The relay of one (container, port) started, stopped and started again, up
\* to MaxThreads times, with one client.
InitRelayStart == InitState(MaxThreads, 1, 1)

SpecRelayStart == InitRelayStart /\ [][NextRelay]_vars

\* The same under the scheduler's fairness: a thread that can take a step
\* takes it, and a running tool handler returns.  Nothing obliges the
\* controller to call a tool, a client to connect, send or close.
ListenerStep(t) ==
    /\ t \in DOMAIN threads
    /\ \/ _start_stream_server_bind(t)
       \/ _start_stream_server_while(t)
       \/ _start_stream_server_accept(t)
       \/ _start_stream_server_close(t)

SpecRelayFair ==
    /\ SpecRelayStart
    /\ \A t \in 1..MaxThreads : WF_vars(ListenerStep(t))
    /\ WF_vars(start_port_stream_register)
    /\ WF_vars(start_port_stream_return)
    /\ WF_vars(stop_port_stream_return)

\* ----------------------------------------------------------- SpecForward
\* One relay and one client that sends MsgLen bytes.
InitForward == InitState(1, 1, MsgLen)

SpecForward == InitForward /\ [][NextRelay]_vars

\* -------------------------------------------------------------- SpecList
\* A log stream and a port relay of the same container side by side, and
\* list_active_streams.
InitList == InitState(MaxThreads, 0, 0)

NextList ==
    \/ stream_container_logs_spawn
    \/ stream_container_logs_register
    \/ \E t \in DOMAIN threads : stream_logs_iter(t)
    \/ \E t \in DOMAIN threads : stream_logs_guard(t)
    \/ \E t \in DOMAIN threads : stream_logs_append(t)
    \/ \E t \in DOMAIN threads : stream_logs_trim(t)
    \/ \E t \in DOMAIN threads : stream_logs_except(t)
    \/ stop_stream(LogsKey)
    \/ stop_stream_return
    \/ start_port_stream_spawn
    \/ start_port_stream_register
    \/ start_port_stream_return
    \/ stop_port_stream
    \/ stop_port_stream_return
    \/ \E t \in DOMAIN threads : _start_stream_server_bind(t)
    \/ \E t \in DOMAIN threads : _start_stream_server_while(t)
    \/ \E t \in DOMAIN threads : _start_stream_server_accept(t)
    \/ \E t \in DOMAIN threads : _start_stream_server_close(t)
    \/ list_active_streams
    \/ list_active_streams_return

SpecList == InitList /\ [][NextList]_vars

\* ------------------------------------------------------------ SpecStatic
\* One followed log stream and follow=False reads of the same container's
\* logs, with stop_stream.
InitStatic == InitWith(1)

NextStatic ==
    \/ stream_container_logs_spawn
    \/ stream_container_logs_register
    \/ stream_container_logs_static
    \/ stream_container_logs_return
    \/ \E t \in DOMAIN threads : stream_logs_iter(t)
    \/ \E t \in DOMAIN threads : stream_logs_guard(t)
    \/ \E t \in DOMAIN threads : stream_logs_append(t)
    \/ \E t \in DOMAIN threads : stream_logs_trim(t)
    \/ \E t \in DOMAIN threads : stream_logs_except(t)
    \/ stop_stream(LogsKey)
    \/ stop_stream_return

SpecStatic == InitStatic /\ [][NextStatic]_vars

\* ----------------------------------------------------------- SpecUnknown
\* Calls that name what is not there: the start handlers called with a
\* container id that no container has, and get_stream_data, stop_stream and
\* stop_port_stream called before and after a realtime stream was started.
InitUnknown == InitWith(1)

NextUnknown ==
    \/ \E container_id \in ContainerIds : stream_container_logs_not_found(container_id)
    \/ stream_container_logs_return
    \/ \E container_id \in ContainerIds : stream_command_execution_not_found(container_id)
    \/ stream_command_execution_return
    \/ \E container_id \in ContainerIds : start_port_stream_not_found(container_id)
    \/ start_port_stream_return
    \/ \E container_id \in ContainerIds : start_realtime_monitoring_spawn_for(container_id)
    \/ start_realtime_monitoring_register
    \/ \E t \in DOMAIN threads : monitor_loop_while(t)
    \/ \E t \in DOMAIN threads : monitor_loop_guard(t)
    \/ \E t \in DOMAIN threads : monitor_loop_append(t)
    \/ \E t \in DOMAIN threads : monitor_loop_broadcast(t)
    \/ \E k \in {RealtimeKey, RealtimeUnknownKey} : stop_stream(k)
    \/ stop_stream_return
    \/ \E k \in {RealtimeKey, RealtimeUnknownKey} : get_stream_data_slice(k, 0)
    \/ get_stream_data_reply
    \/ get_stream_data_return
    \/ stop_port_stream
    \/ stop_port_stream_return

SpecUnknown == InitUnknown /\ [][NextUnknown]_vars

\* The same under the scheduler's fairness: a producer that can execute its
\* next statement executes it, and a running tool handler goes on.  The
\* iteration `for log_line in log_stream` is no such statement: next() of the
\* followed log iterator is called without a timeout and returns when the
\* container writes a line or its log stream closes, and nothing obliges the
\* container to do either.
ProducerStep(t) ==
    /\ t \in DOMAIN threads
    /\ \/ stream_logs_guard(t)
       \/ stream_logs_append(t)
       \/ stream_logs_trim(t)
       \/ stream_logs_except(t)

SpecLogsFair ==
    /\ SpecStatic
    /\ \A t \in 1..MaxThreads : WF_vars(ProducerStep(t))
    /\ WF_vars(stream_container_logs_register)
    /\ WF_vars(stream_container_logs_return)
    /\ WF_vars(stop_stream_return)

\* The same under the scheduler's fairness: the listener, the handler of a
\* connection and each of its forwarders take the step they can take.  A
\* forwarder in recv on the blocking client_socket can take none until the
\* client sends or closes, and nothing obliges a client to do either; recv on
\* container_socket returns or raises within its timeout.
HandlerStep(c) ==
    /\ c \in DOMAIN conns
    /\ \/ _handle_stream_client_resolve(c)
       \/ _handle_stream_client_connect(c)
       \/ _handle_stream_client_start(c)
       \/ _handle_stream_client_join(c)
       \/ _handle_stream_client_except(c)
       \/ _handle_stream_client_finally(c)

ForwarderStep(c, d) ==
    /\ c \in DOMAIN conns
    /\ \/ forward_data_while(c, d)
       \/ forward_data_recv(c, d)
       \/ forward_data_send(c, d)

SpecForwardFair ==
    /\ SpecForward
    /\ \A t \in 1..MaxThreads : WF_vars(ListenerStep(t))
    /\ \A c \in 1..MaxConns : WF_vars(HandlerStep(c))
    /\ \A c \in 1..MaxConns : \A d \in Directions : WF_vars(ForwarderStep(c, d))
    /\ WF_vars(start_port_stream_register)
    /\ WF_vars(start_port_stream_return)
    /\ WF_vars(stop_port_stream_return)

\* ------------------------------------------------------------ SpecCursor
\* One followed log stream read at every integer cursor, negative ones and
\* ones beyond the buffer included (last_index: int is not checked).
Cursors == (0 - (BufferLimit + 1))..(BufferLimit + 1)

InitCursor == InitWith(1)

NextCursor ==
    \/ stream_container_logs_spawn
    \/ stream_container_logs_register
    \/ \E t \in DOMAIN threads : stream_logs_iter(t)
    \/ \E t \in DOMAIN threads : stream_logs_guard(t)
    \/ \E t \in DOMAIN threads : stream_logs_append(t)
    \/ \E t \in DOMAIN threads : stream_logs_trim(t)
    \/ \E t \in DOMAIN threads : stream_logs_except(t)
    \/ \E last_index \in Cursors : get_stream_data_slice(LogsKey, last_index)
    \/ get_stream_data_reply
    \/ get_stream_data_return

SpecCursor == InitCursor /\ [][NextCursor]_vars

\* ----------------------------------------------------------- SpecResolve
\* One relay and the handlers of MaxConns connections, up to the connect to
\* the address each of them resolved from the network settings it fetched.
InitResolve == InitState(1, MaxConns, 0)

NextResolve ==
    \/ start_port_stream_spawn
    \/ start_port_stream_register
    \/ start_port_stream_return
    \/ \E t \in DOMAIN threads : _start_stream_server_bind(t)
    \/ \E t \in DOMAIN threads : _start_stream_server_while(t)
    \/ \E t \in DOMAIN threads : _start_stream_server_accept(t)
    \/ \E t \in DOMAIN threads : _start_stream_server_close(t)
    \/ \E c \in DOMAIN conns : _handle_stream_client_lookup(c)
    \/ \E c \in DOMAIN conns : _handle_stream_client_connect(c)
    \/ \E c \in DOMAIN conns : _handle_stream_client_except(c)
    \/ \E c \in DOMAIN conns : _handle_stream_client_finally(c)

SpecResolve == InitResolve /\ [][NextResolve]_vars

\* ------------------------------------------------------------- SpecAlias
\* start_port_stream called with the container's id and with a short id of
\* it, the listeners, and stop_port_stream; no client connects.
InitAlias == InitState(MaxThreads, 0, 0)

NextAlias ==
    \/ \E container_id \in {Container, ContainerPrefix} :
            start_port_stream_spawn_for(container_id)
    \/ start_port_stream_register
    \/ start_port_stream_return
    \/ stop_port_stream
    \/ stop_port_stream_return
    \/ \E t \in DOMAIN threads : _start_stream_server_bind(t)
    \/ \E t \in DOMAIN threads : _start_stream_server_while(t)
    \/ \E t \in DOMAIN threads : _start_stream_server_accept(t)
    \/ \E t \in DOMAIN threads : _start_stream_server_close(t)

SpecAlias == InitAlias /\ [][NextAlias]_vars

\* ------------------------------------------------------------- SpecMixed
\* A followed log stream and a port relay side by side in the registry, with
\* stop_stream called with either key and stop_port_stream.
InitMixed == InitWith(MaxThreads)

NextMixed ==
    \/ stream_container_logs_spawn
    \/ stream_container_logs_register
    \/ \E t \in DOMAIN threads : stream_logs_iter(t)
    \/ \E t \in DOMAIN threads : stream_logs_guard(t)
    \/ \E t \in DOMAIN threads : stream_logs_append(t)
    \/ \E t \in DOMAIN threads : stream_logs_trim(t)
    \/ \E t \in DOMAIN threads : stream_logs_except(t)
    \/ start_port_stream_spawn
    \/ start_port_stream_register
    \/ start_port_stream_return
    \/ \E t \in DOMAIN threads : _start_stream_server_bind(t)
    \/ \E t \in DOMAIN threads : _start_stream_server_while(t)
    \/ \E t \in DOMAIN threads : _start_stream_server_accept(t)
    \/ \E t \in DOMAIN threads : _start_stream_server_close(t)
    \/ \E k \in {LogsKey, RelayKey} : stop_stream(k)
    \/ stop_stream_return
    \/ stop_port_stream
    \/ stop_port_stream_return

SpecMixed == InitMixed /\ [][NextMixed]_vars

\* ================================================================= claims
Range(s) == {s[i] : i \in DOMAIN s}
StrictlyIncreasing(s) == \A i, j \in DOMAIN s : i < j => s[i] < s[j]

\* A get_stream_data call that has produced its stream_data reply.
Replied ==
    /\ call.op = "get_stream_data"
    /\ call.pc = "returned"
    /\ "data" \in DOMAIN call.resp

\* The reply carries no "truncated" field: nothing is signalled.
Truncated(resp) == IF "truncated" \in DOMAIN resp THEN resp.truncated ELSE FALSE

\* No producer is between its append under key k and the trim that follows.
NoTrimPending(k) == \A t \in DOMAIN threads : ~(threads[t].key = k /\ threads[t].pc = "trim")

\* C1: in every reachable state every buffer holds at most BufferLimit (1000)
\* events, between an append and its trim and after a terminal event too.
C1_BufferBounded ==
    \A k \in DOMAIN active_streams : Len(active_streams[k].buffer) <= BufferLimit

\* C2: a read of a trimmed stream whose cursor is below the index of the
\* oldest retained event replies truncated=true with a slice that starts at
\* the oldest retained event.
C2_GapSignalled ==
    (/\ Replied
     /\ call.started
     /\ call.snap # <<>>
     /\ call.count > Len(call.snap)
     /\ call.last_index < call.count - Len(call.snap))
    => /\ Truncated(call.resp)
       /\ call.resp.data # <<>>
       /\ call.resp.data[1].seq = call.snap[1]

\* C3: for the poller that chains its cursors from 0, every event retained in
\* the buffer when a read is made has been returned by that read or by an
\* earlier one.  Stated for the case most favourable to the code: the stream
\* was never stopped, and no producer step fell inside any of the reads.
C3_NoRetainedEventSkipped ==
    (/\ Replied
     /\ call.chained
     /\ call.started
     /\ sess[call.key].atomic)
    => \A i \in DOMAIN call.snap : call.snap[i] \in Range(sess[call.key].received)

\* C4: after N <= BufferLimit (1000) appends to a freshly registered stream a
\* read at cursor 0 returns exactly those N events in insertion order, and
\* signals no truncation.
C4_FreshReadReturnsAll ==
    (/\ Replied
     /\ call.last_index = 0
     /\ call.started
     /\ call.count <= BufferLimit)
    => /\ Seqs(call.resp.data) = [i \in 1..call.count |-> regAt[call.key] + i]
       /\ ~Truncated(call.resp)

C4_Witness ==
    /\ Replied
    /\ call.last_index = 0
    /\ call.started
    /\ call.count = BufferLimit
    /\ Len(call.resp.data) = BufferLimit

\* C5: an append that makes a buffer longer than BufferLimit (1000) is
\* followed by a trim to the KeepCount (500) most recently appended events in
\* their order; after BufferLimit + 1 appends to a fresh stream the buffer
\* holds exactly the last KeepCount of them.
C5_TrimmedToMostRecent ==
    \A k \in DOMAIN active_streams :
        LET buffer == active_streams[k].buffer IN
        NoTrimPending(k)
        => /\ Len(buffer) <= BufferLimit
           /\ Seqs(buffer) = [i \in 1..Len(buffer) |-> nappended[k] - Len(buffer) + i]
           /\ ("thread" \in DOMAIN active_streams[k]
                    /\ nappended[k] - regAt[k] = BufferLimit + 1)
              => Len(buffer) = KeepCount

\* C6: what the chained poller has received, in the order received, is a
\* subsequence of the append order: nothing twice, nothing out of order.
C6_ReceivedInAppendOrder ==
    \A k \in Keys : StrictlyIncreasing(sess[k].received)

C6_Witness ==
    /\ Len(sess[LogsKey].received) >= 3
    /\ \E i \in 1..(Len(sess[LogsKey].received) - 1) :
            sess[LogsKey].received[i + 1] > sess[LogsKey].received[i] + 1
    /\ nappended[LogsKey] > BufferLimit

C10_StoppedStaysAbsent ==
    \A k \in Keys : stopped[k] => k \notin DOMAIN active_streams

\* C8: the buffer of a command stream holds at most one terminal event; a
\* command_completed is there only for a command that ran to completion (the
\* runtime reported its exit code), a command_error only for a failure of
\* the command, not for the worker's own KeyError.
C8_OneTerminalEvent ==
    \A k \in DOMAIN active_streams :
        LET buffer == active_streams[k].buffer IN
        active_streams[k].type = "command"
        => /\ Cardinality({i \in DOMAIN buffer :
                    buffer[i].type \in {"command_completed", "command_error"}}) <= 1
           /\ \A i \in DOMAIN buffer :
                /\ buffer[i].type = "command_completed" => buffer[i].exit_code # "None"
                /\ buffer[i].type = "command_error" => buffer[i].error # "KeyError"

\* What C9 promises of a command whose n chunks were all read: n
\* command_output events in order, then command_completed with exit code 0.
ExpectedEvents(n) ==
    [i \in 1..(n + 1) |->
        IF i <= n THEN [type |-> "command_output", data |-> i]
        ELSE [type |-> "command_completed", exit_code |-> "0"]]

Unlabelled(event) == [f \in DOMAIN event \ {"seq"} |-> event[f]]

\* C9: once the worker of a started, never stopped command stream has
\* returned, for a command that printed finitely many chunks and exited with
\* code 0 without any failure, the buffer holds one command_output per chunk
\* in order and then exactly one command_completed with exit_code 0.
C9_CommandRunsToCompletion ==
    \A t \in DOMAIN threads :
        LET th == threads[t] IN
        (/\ th.kind = "exec"
         /\ th.pc = "done"
         /\ ~th.fault
         /\ th.code = "0"
         /\ call = Idle
         /\ ~stopped[th.key])
        => /\ th.finished
           /\ th.key \in DOMAIN active_streams
           /\ LET buffer == active_streams[th.key].buffer IN
              [i \in DOMAIN buffer |-> Unlabelled(buffer[i])] = ExpectedEvents(th.n)

\* C11: a stop_stream call on a key that an earlier stop_stream call popped,
\* with no start of the key in between, replies not found and leaves the
\* registry as it is.
C11_SecondStopNotFound ==
    [][(call.op = "idle" /\ call'.op = "stop_stream" /\ call'.again)
        => /\ "error" \in DOMAIN call'.resp
           /\ active_streams' = active_streams]_vars

\* C12: start_port_stream for a key that is in the registry replies "already
\* active", starts no listener thread, and leaves the registry, the bound
\* host port and the connections as they are.
C12_DuplicateStartRefused ==
    [][(call.op = "idle" /\ call'.op = "start_port_stream"
            /\ RelayKey \in DOMAIN active_streams)
        => /\ call'.pc = "returned"
           /\ call'.resp = "already active"
           /\ threads' = threads
           /\ active_streams' = active_streams
           /\ host_port' = host_port
           /\ conns' = conns]_vars

C12_Witness ==
    /\ call.op = "start_port_stream"
    /\ call.pc = "returned"
    /\ call.resp = "already active"
    /\ RelayKey \in DOMAIN active_streams
    /\ host_port = active_streams[RelayKey].thread

\* C13: a start of a command stream whose key is in the registry starts no
\* producer and leaves the record that is there, its buffer included,
\* untouched: a start never replaces an active record.
C13_StartNeverReplaces ==
    [][/\ (call.op = "idle" /\ call'.op = "stream_command_execution"
                /\ ExecKey \in DOMAIN active_streams)
            => threads' = threads
       /\ (call.op = "stream_command_execution" /\ call'.op = "idle"
                /\ call.key \in DOMAIN active_streams)
            => active_streams' = active_streams]_vars

\* C14: when the listener could not bind the host port, the start call does
\* not reply "started", and once the call has returned the registry holds no
\* record of that listener.
C14_BindErrorReported ==
    \A t \in DOMAIN threads :
        (/\ threads[t].kind = "relay"
         /\ threads[t].pc = "done"
         /\ ~threads[t].bound)
        => /\ ~(/\ call.op = "start_port_stream"
                /\ call.pc = "returned"
                /\ call.resp = "started"
                /\ call.thread = t)
           /\ ~(/\ call = Idle
                /\ RelayKey \in DOMAIN active_streams
                /\ active_streams[RelayKey].thread = t)

\* C15: after a stop_port_stream that popped the record of listener t, that
\* listener eventually closes its socket and terminates, whatever follows.
C15_StoppedListenerTerminates ==
    \A t \in 1..MaxThreads :
        (/\ call.op = "stop_port_stream"
         /\ call.pc = "returned"
         /\ call.resp = "stopped"
         /\ call.thread = t
         /\ host_port = t)
        ~> (t \in DOMAIN threads /\ threads[t].pc = "done" /\ host_port # t)

\* Why a forwarder has ended.
EndedBy(f) == IF f.pc = "done" THEN {f.why} ELSE {}

\* C16: a stop_port_stream call changes the registry and nothing else: no
\* thread, socket or connection.  A forwarder ends only on EOF, on an error,
\* or at its own test of the registry after the stop, and the relay closes
\* the sockets of a relaying connection only after both its forwarders ended.
C16_StopClosesNoSocket ==
    /\ [][(call.op = "idle" /\ call'.op = "stop_port_stream")
            => /\ conns' = conns
               /\ threads' = threads
               /\ host_port' = host_port
               /\ clients' = clients
               /\ \A k \in DOMAIN active_streams' : k # RelayKey]_vars
    /\ [](\A c \in DOMAIN conns :
            /\ EndedBy(conns[c].c2s) \cup EndedBy(conns[c].s2c)
                    \subseteq {"eof", "error", "stopped"}
            /\ "stopped" \in EndedBy(conns[c].c2s) \cup EndedBy(conns[c].s2c)
                    => stopped[RelayKey]
            /\ (conns[c].client_socket = "closed" /\ conns[c].err = "")
                    => (conns[c].c2s.pc = "done" /\ conns[c].s2c.pc = "done"))

\* A connection relays after the relay was stopped.
C16_Witness ==
    \E c \in DOMAIN conns :
        /\ stopped[RelayKey]
        /\ call = Idle
        /\ conns[c].client_socket = "open"
        /\ conns[c].container_socket = "open"
        /\ conns[c].s2c.pc = "send"

\* The handler of connection c failed to resolve or to connect.
Failed(conn) == conn.err # ""

\* C17: a connection whose handler failed to resolve or to connect gets an
\* error line and has both its sockets closed; the steps of a failing handler
\* change nothing of the listener, the registry or any other connection.
C17_FailureStaysInConnection ==
    /\ [](\A c \in DOMAIN conns :
            (Failed(conns[c]) /\ conns[c].pc = "done")
            => /\ conns[c].errmsg # ""
               /\ conns[c].client_socket = "closed"
               /\ conns[c].container_socket = "closed")
    /\ [][\A c \in DOMAIN conns :
            (conns'[c] # conns[c] /\ Failed(conns'[c]))
            => /\ threads' = threads
               /\ active_streams' = active_streams
               /\ host_port' = host_port
               /\ \A x \in DOMAIN conns : x # c => conns'[x] = conns[x]]_vars

\* One connection failed; the listener is in its loop with the key
\* registered and another connection has relayed the echo to its client.
C17_Witness ==
    \E c, x \in DOMAIN conns :
        /\ Failed(conns[c])
        /\ conns[c].pc = "done"
        /\ c < x
        /\ conns[x].crx # <<>>
        /\ RelayKey \in DOMAIN active_streams
        /\ \E t \in DOMAIN threads : threads[t].pc \in {"while", "accept"}

\* The bytes of connection c, wherever they are on their way.
BytesOf(conn) ==
    Range(conn.cin) \cup Range(conn.c2s.data) \cup Range(conn.srv)
        \cup Range(conn.sout) \cup Range(conn.s2c.data) \cup Range(conn.crx)

\* C18: every byte in the queues of a connection, in the hands of its
\* forwarders, received by its container connection or by its client, is a
\* byte that its own client sent.
C18_NoCrossTalk ==
    \A c \in DOMAIN conns : \A b \in BytesOf(conns[c]) : b.conn = c

\* Two connections of the relay have both got their echo.
C18_Witness ==
    /\ Len(conns) >= 2
    /\ \A c \in DOMAIN conns : conns[c].crx # <<>>

\* The first n bytes client c sends.
Sent(c, n) == [i \in 1..n |-> [conn |-> c, i |-> i]]

\* C19: with the key registered and the client open, whenever a forwarder is
\* not holding data, all that it has read has reached its destination once
\* and in order: the container has every byte read from the client, the
\* client every byte read from the container.
C19_EveryByteForwarded ==
    \A c \in DOMAIN conns :
        LET conn == conns[c] IN
        (RelayKey \in DOMAIN active_streams /\ ~conn.client_closed)
        => /\ conn.c2s.pc \in {"while", "recv"}
                => conn.srv = Sent(c, clients.bytes - conn.unsent - Len(conn.cin))
           /\ conn.s2c.pc \in {"while", "recv"}
                => conn.crx \o conn.sout = conn.srv

\* The relay records of a registry.
Relays(registry) == {k \in DOMAIN registry : "host_port" \in DOMAIN registry[k]}

\* C20: list_active_streams returns, whatever the registry holds, one entry
\* per port relay with its container id, container port and host port, and
\* nothing for a stream of another kind.
C20_ListsExactlyTheRelays ==
    (call.op = "list_active_streams" /\ call.pc = "returned")
    => IF "none" \in DOMAIN call.resp
       THEN Relays(call.registry) = {}
       ELSE /\ "streams" \in DOMAIN call.resp
            /\ DOMAIN call.resp.streams = Relays(call.registry)
            /\ \A k \in Relays(call.registry) :
                    call.resp.streams[k] =
                        [container_id |-> call.registry[k].container_id,
                         container_port |-> call.registry[k].container_port,
                         host_port |-> call.registry[k].host_port]

\* C21: when the followed log iterator of a registered log stream ends, by
\* exhaustion or by raising, the producer appends one error event and
\* terminates: every step by which a log producer terminates while its key is
\* registered appends an error event to the buffer of that key.
C21_IteratorEndRecorded ==
    [][\A t \in DOMAIN threads :
        LET k == threads[t].key IN
        (/\ threads[t].kind = "logs"
         /\ threads[t].pc # "done"
         /\ threads'[t].pc = "done"
         /\ k \in DOMAIN active_streams)
        => /\ k \in DOMAIN active_streams'
           /\ nappended'[k] = nappended[k] + 1
           /\ active_streams'[k].buffer # <<>>
           /\ active_streams'[k].buffer[Len(active_streams'[k].buffer)].type = "error"]_vars

\* C22: bytes that are not valid UTF-8 are recovered by replacement: no
\* decode raises in a log producer, no error event is recorded for one, and a
\* follow=False call that read such bytes does not return an error.
C22_InvalidBytesRecovered ==
    /\ \A t \in DOMAIN threads :
            (threads[t].kind = "logs" /\ threads[t].pc = "except")
            => threads[t].err # "UnicodeDecodeError"
    /\ \A k \in DOMAIN active_streams :
            \A i \in DOMAIN active_streams[k].buffer :
                active_streams[k].buffer[i].type = "error"
                => active_streams[k].buffer[i].error # "UnicodeDecodeError"
    /\ (call.op = "stream_container_logs" /\ call.pc = "returned" /\ call.invalid)
            => "error" \notin DOMAIN call.resp

\* C23: a follow=False call of stream_container_logs leaves the registry and
\* the threads exactly as they were, and when its read succeeded it replies
\* the static payload: type "logs", streaming false.
C23_StaticReadLeavesRegistry ==
    [][(call.op = "idle" /\ call'.op = "stream_container_logs" /\ call'.pc = "returned")
        => /\ active_streams' = active_streams
           /\ threads' = threads
           /\ starts_left' = starts_left
           /\ "error" \notin DOMAIN call'.resp
                => (call'.resp.type = "logs" /\ ~call'.resp.streaming)]_vars

\* A static read made while a followed stream of the container holds events.
C23_Witness ==
    /\ call.op = "stream_container_logs"
    /\ call.pc = "returned"
    /\ "error" \notin DOMAIN call.resp
    /\ LogsKey \in DOMAIN active_streams
    /\ "thread" \in DOMAIN active_streams[LogsKey]
    /\ active_streams[LogsKey].buffer # <<>>

\* The start handlers, and the container id a start call was made with.
StartOps == {"stream_container_logs", "stream_command_execution",
             "start_port_stream", "start_realtime_monitoring"}

CalledWith(c) == IF "container_id" \in DOMAIN c THEN c.container_id ELSE Container

\* C24: get_stream_data, stop_stream and stop_port_stream called with a key
\* that is not in the registry reply not found and leave the registry as it
\* is; a start handler called with a container id that no container has
\* replies not found, starts no thread and registers no record.
C24_UnknownIsNotFound ==
    [][/\ (call.op = "idle" /\ call'.op \in {"get_stream_data", "stop_stream"}
                /\ call'.key \notin DOMAIN active_streams)
            => /\ call'.pc = "returned"
               /\ "error" \in DOMAIN call'.resp
               /\ active_streams' = active_streams
       /\ (call.op = "idle" /\ call'.op = "stop_port_stream"
                /\ call'.key \notin DOMAIN active_streams)
            => /\ call'.resp = "no active stream"
               /\ active_streams' = active_streams
       /\ (call.op = "idle" /\ call'.op \in StartOps
                /\ _find_container(CalledWith(call')) = "None")
            => /\ call'.pc = "returned"
               /\ threads' = threads
               /\ active_streams' = active_streams
       /\ (call.op \in StartOps /\ _find_container(CalledWith(call)) = "None")
            => active_streams' = active_streams]_vars

\* The buffer of key k holds an error or command_error event.
HasErrorEvent(k) ==
    /\ k \in DOMAIN active_streams
    /\ "buffer" \in DOMAIN active_streams[k]
    /\ \E i \in DOMAIN active_streams[k].buffer :
            active_streams[k].buffer[i].type \in {"error", "command_error"}

\* C25: no worker terminates on an error silently while its key is
\* registered.  A relay listener that could not bind leaves an error event
\* under its key once its start call has registered it; a log or command
\* producer that leaves its except clause, and a listener whose accept
\* failed, have an error event under their key if the key is registered.
C25_WorkerErrorsRecorded ==
    /\ [](\A t \in DOMAIN threads :
            (/\ threads[t].kind = "relay"
             /\ threads[t].pc = "done"
             /\ ~threads[t].bound
             /\ call = Idle
             /\ RelayKey \in DOMAIN active_streams
             /\ active_streams[RelayKey].thread = t)
            => HasErrorEvent(RelayKey))
    /\ [][\A t \in DOMAIN threads :
            LET k == threads[t].key IN
            /\ (/\ threads[t].kind \in {"logs", "exec"}
                /\ threads[t].pc = "except"
                /\ threads'[t].pc = "done"
                /\ k \in DOMAIN active_streams)
               => HasErrorEvent(k)'
            /\ (/\ threads[t].kind = "relay"
                /\ threads[t].pc = "accept"
                /\ threads'[t].pc = "close"
                /\ k \in DOMAIN active_streams)
               => HasErrorEvent(k)']_vars

\* The start call that started worker t has not stored the record yet.
NotYetRegistered(t) ==
    /\ call.op \in StartOps
    /\ call.pc = "register"
    /\ call.thread = t

\* Worker t leaves its loop in this step because its membership test found
\* the key absent: the listener goes to close its socket, the monitor loop
\* returns, the command producer breaks out of an output that has not ended,
\* the log producer returns from its iteration.
LeftByMembershipTest(t) ==
    /\ threads[t].key \notin DOMAIN active_streams
    /\ \/ threads[t].kind = "relay" /\ threads[t].pc = "while" /\ threads'[t].pc = "close"
       \/ threads[t].kind = "realtime" /\ threads[t].pc = "while" /\ threads'[t].pc = "done"
       \/ threads[t].kind = "exec" /\ threads[t].pc = "iter" /\ threads'[t].pc = "inspect"
            /\ ~threads'[t].finished
       \/ threads[t].kind = "logs" /\ threads[t].pc = "iter" /\ threads'[t].pc = "done"

\* C26: the record is registered before the worker's first membership test:
\* no worker leaves its loop at a membership test made while the call that
\* started it has not yet stored the record.
C26_RegisteredBeforeFirstCheck ==
    [][\A t \in DOMAIN threads : NotYetRegistered(t) => ~LeftByMembershipTest(t)]_vars

\* Where a producer is between its membership test and the end of its write
\* to the record.
WritePcs == {"guard", "append", "trim"}

Writers(k) == {t \in DOMAIN threads : threads[t].key = k /\ threads[t].pc \in WritePcs}

\* C27: a record has a single writer.  At no time are two producers in the
\* middle of a write to the record of one key, and the store of a start call
\* never replaces a record that the worker it started has appended to.
C27_SingleWriter ==
    /\ [](\A k \in Keys : Cardinality(Writers(k)) <= 1)
    /\ [][\A t \in DOMAIN threads :
            (/\ NotYetRegistered(t)
             /\ call' = Idle
             /\ threads[t].kind \in {"logs", "exec"}
             \* the worker has appended its n-th event
             /\ threads[t].pc \in {"trim", "iter"}
             /\ threads[t].n > 0
             /\ call.key \in DOMAIN active_streams)
            => active_streams'[call.key].buffer = active_streams[call.key].buffer]_vars

\* C28: after stop_stream has popped the key of a followed log stream, the
\* stream's producer eventually terminates, whether or not the container
\* writes another line.
C28_StoppedProducerTerminates ==
    \A t \in 1..MaxThreads :
        (/\ stopped[LogsKey]
         /\ t \in DOMAIN threads
         /\ threads[t].kind = "logs")
        ~> (t \in DOMAIN threads /\ threads[t].pc = "done")

\* C29: once the relay key has been popped, both forwarders of every
\* connection that is relaying eventually terminate and the handler closes
\* the connection's two sockets, whatever the peers do or do not do.
C29_StoppedRelayDrains ==
    \A c \in 1..MaxConns :
        (/\ stopped[RelayKey]
         /\ c \in DOMAIN conns
         /\ conns[c].pc = "join")
        ~> (/\ c \in DOMAIN conns
            /\ conns[c].c2s.pc = "done"
            /\ conns[c].s2c.pc = "done"
            /\ conns[c].client_socket = "closed"
            /\ conns[c].container_socket = "closed")

\* C30: while the relay key is registered and the client of a relaying
\* connection has not closed (the container's service never closes and never
\* fails), both forwarders of the connection are alive: a silent peer ends
\* neither direction.
C30_IdleKeepsForwarding ==
    \A c \in DOMAIN conns :
        (/\ RelayKey \in DOMAIN active_streams
         /\ conns[c].pc = "join"
         /\ ~conns[c].client_closed)
        => /\ conns[c].c2s.pc # "done"
           /\ conns[c].s2c.pc # "done"

\* The forwarders of a connection were started.
Relaying(conn) == conn.c2s.pc # "unstarted" /\ conn.s2c.pc # "unstarted"

\* C31: when a forwarder of a connection ends on EOF, that step leaves the
\* opposite forwarder and both sockets as they are; no socket of a relaying
\* connection is closed while one of its forwarders has not ended, and once
\* the handler has returned both sockets are closed.
C31_SocketsOutliveBothForwarders ==
    /\ [](\A c \in DOMAIN conns :
            Relaying(conns[c])
            => /\ (conns[c].client_socket = "closed" \/ conns[c].container_socket = "closed")
                    => (conns[c].c2s.pc = "done" /\ conns[c].s2c.pc = "done")
               /\ conns[c].pc = "done"
                    => (/\ conns[c].client_socket = "closed"
                        /\ conns[c].container_socket = "closed"))
    /\ [][\A c \in DOMAIN conns :
            /\ (conns[c].c2s.pc # "done" /\ conns'[c].c2s = FwdDone("eof"))
                => /\ conns'[c].s2c = conns[c].s2c
                   /\ conns'[c].client_socket = conns[c].client_socket
                   /\ conns'[c].container_socket = conns[c].container_socket
            /\ (conns[c].s2c.pc # "done" /\ conns'[c].s2c = FwdDone("eof"))
                => /\ conns'[c].c2s = conns[c].c2s
                   /\ conns'[c].client_socket = conns[c].client_socket
                   /\ conns'[c].container_socket = conns[c].container_socket]_vars

\* The client has closed and its forwarder ended on EOF, while the opposite
\* forwarder holds data to send and both sockets are open.
C31_Witness ==
    \E c \in DOMAIN conns :
        /\ conns[c].c2s = FwdDone("eof")
        /\ conns[c].s2c.pc = "send"
        /\ conns[c].client_socket = "open"
        /\ conns[c].container_socket = "open"

\* C32: for a key that stays registered, a read at the cursor that the
\* previous read returned replies a cursor that is not smaller, whatever the
\* producer appended or trimmed in between.  Stated for the case most
\* favourable to the code: no producer step fell inside any of the reads.
C32_CursorNeverDecreases ==
    (/\ Replied
     /\ call.chained
     /\ call.started
     /\ ~stopped[call.key]
     /\ sess[call.key].atomic)
    => call.resp.last_index >= call.last_index

\* The events of buffer s whose index, counted from 0, is at least cursor.
FromIndex(s, cursor) == SubSeq(s, Max(Min(cursor, Len(s)), 0) + 1, Len(s))

\* C33: a read of a started stream that was never trimmed returns, for every
\* integer cursor, exactly the events whose index is at least the cursor:
\* the whole buffer for a cursor <= 0, nothing for a cursor >= the length.
C33_SliceFromAnyCursor ==
    (/\ Replied
     /\ call.started
     /\ call.count <= BufferLimit)
    => Seqs(call.resp.data) = FromIndex(call.snap, call.last_index)

\* The handler of the connection has fetched the network settings.
Resolved(conn) == "attrs" \in DOMAIN conn

\* The network attachments of the settings, whatever their order.
Attachments(attrs) == {attrs.Networks[i] : i \in DOMAIN attrs.Networks}

\* C34: the address resolved for a connection is the primary address when
\* that is not empty; two connections that fetched the same primary address
\* and the same network attachments resolve the same address; and a
\* connection for which no address was resolved gets the error line, is
\* never connected to the container, and ends closed.
C34_AddressResolution ==
    \A c, x \in DOMAIN conns :
        (Resolved(conns[c]) /\ Resolved(conns[x]))
        => /\ conns[c].attrs.IPAddress # ""
                => conns[c].container_ip = conns[c].attrs.IPAddress
           /\ (/\ conns[c].attrs.IPAddress = conns[x].attrs.IPAddress
               /\ Attachments(conns[c].attrs) = Attachments(conns[x].attrs))
                => conns[c].container_ip = conns[x].container_ip
           /\ conns[c].container_ip = ""
                => /\ conns[c].errmsg = ErrorReply("no ip")
                   /\ conns[c].container_socket # "open"
                   /\ conns[c].pc \in {"finally", "done"}
                   /\ conns[c].pc = "done" => conns[c].client_socket = "closed"

\* A listener that holds the listening socket and runs its accept loop.
LiveListener(t) ==
    /\ threads[t].kind = "relay"
    /\ threads[t].bound
    /\ threads[t].pc \in {"while", "accept"}

\* C35: no two live listeners serve one relay key, and between tool calls
\* the live listener of a key that has a record is the listener that record
\* names: a listener whose relay was stopped does not go on serving for the
\* record of a later start_port_stream.
C35_ListenerServesCurrentRecord ==
    /\ \A t, u \in DOMAIN threads :
        (LiveListener(t) /\ LiveListener(u) /\ threads[t].key = threads[u].key)
            => t = u
    /\ \A t \in DOMAIN threads :
        (/\ LiveListener(t)
         /\ call = Idle
         /\ threads[t].key \in DOMAIN active_streams)
            => active_streams[threads[t].key].thread = t

\* The record of a port relay.
IsRelayRecord(stream_info) == RelayFields \subseteq DOMAIN stream_info

\* C36: the registry never holds two relay records for one container and one
\* container port: records whose ids resolve, by exact or prefix match, to
\* the same container and that name the same container port are one record.
C36_OneRelayPerContainerPort ==
    \A k, j \in DOMAIN active_streams :
        (/\ IsRelayRecord(active_streams[k])
         /\ IsRelayRecord(active_streams[j])
         /\ _find_container(active_streams[k].container_id)
                = _find_container(active_streams[j].container_id)
         /\ active_streams[k].container_port = active_streams[j].container_port)
            => k = j

\* The record under key k is the same after the step.
RecordKept(k) ==
    /\ k \in DOMAIN active_streams'
    /\ active_streams'[k] = active_streams[k]

\* C37: a stop_stream call leaves every relay record in place, a relay
\* record leaves the registry only in a stop_port_stream call, and a
\* stop_port_stream call leaves every record that is not a relay's in place.
C37_StopsKeepToTheirKind ==
    [][/\ (call.op = "idle" /\ call'.op = "stop_stream")
            => \A k \in DOMAIN active_streams :
                    IsRelayRecord(active_streams[k]) => RecordKept(k)
       /\ \A k \in DOMAIN active_streams :
            (IsRelayRecord(active_streams[k]) /\ k \notin DOMAIN active_streams')
                => call'.op = "stop_port_stream"
       /\ (call.op = "idle" /\ call'.op = "stop_port_stream")
            => \A k \in DOMAIN active_streams :
                    ~IsRelayRecord(active_streams[k]) => RecordKept(k)]_vars
====
